---- MODULE Spec2Model ----
(***************************************************************************)
(* Model of gemini.py: the pipeline that turns an exported conversation    *)
(* archive into per-topic, append-only HTML reports and an index page.     *)
(*                                                                         *)
(* Text (titles, message texts, date keys) is a sequence of one-character  *)
(* strings, so that the regular expression, strip(), endswith(), the       *)
(* zero-padded formatting and the lexical comparisons are computed.        *)
(* An HTML file is modelled by what html.parser makes of it: whether it    *)
(* can be decoded, whether it has a <body>, and the (<h2>, <pre>) pairs of *)
(* its body in document order.  A summary is an opaque text without        *)
(* markup.                                                                 *)
(***************************************************************************)
EXTENDS Integers, Sequences, FiniteSets, TLC

VARIABLES
    docs,            \* OUTPUT_DIR: file name (title) -> document
    index,           \* INDEX_HTML
    pc,              \* position of main(): idle, threads, dates, returned, done,
                     \* aborted
    exc,             \* the exception that ended the run ("" when none)
    inputExists,     \* os.path.exists(INPUT_JSON) as seen by the current run
    data,            \* the export read by json.load
    ti,              \* position of `for thread in data`
    html_path,       \* local of main(): the current thread's document
    existing_dates,  \* local of main()
    messages,        \* local of main()
    date_to_group,   \* local of main()
    todo,            \* rest of `sorted(date_to_group.items())`
    summary,         \* local of main(): the last summarize_with_gemini result
    called,          \* the step just taken called the summarization API
    failed,          \* some summarization call of this run failed
    replay           \* this run reads the same export as the run before it

vars == <<docs, index, pc, exc, inputExists, data, ti, html_path,
          existing_dates, messages, date_to_group, todo, summary,
          called, failed, replay>>

(***************************************************************************)
(* Bounds of the model.                                                    *)
(***************************************************************************)
MaxThreads == 2      \* threads of an export
MaxNodes == 2        \* nodes of a thread's mapping, export read thread by thread
MaxMsgs == 3         \* nodes of the mapping of a one-thread export

(***************************************************************************)
(* Text.                                                                   *)
(***************************************************************************)
None == <<>>         \* Python's None (and the empty text): falsy

Digits == <<"0", "1", "2", "3", "4", "5", "6", "7", "8", "9">>

IsDigit(c) == \E i \in 1..10 : Digits[i] = c

DigitVal(c) == (CHOOSE i \in 1..10 : Digits[i] = c) - 1

DigitChar(n) == Digits[n + 1]

\* Unicode code points: Python compares str by code point.
Ord(c) ==
    CASE c = " " -> 32
      [] c = "-" -> 45
      [] c = "/" -> 47
      [] IsDigit(c) -> 48 + DigitVal(c)
      [] c = "A" -> 65
      [] c = "B" -> 66
      [] c = "_" -> 95
      [] c = "h" -> 104
      [] c = "x" -> 120
      [] c = "u56FD" -> 22269
      [] c = "u682A" -> 26666
      [] c = "u7C73" -> 31859

RECURSIVE StrLess(_, _)
\* s < t for Python str
StrLess(s, t) ==
    IF t = <<>> THEN FALSE
    ELSE IF s = <<>> THEN TRUE
    ELSE IF Head(s) = Head(t) THEN StrLess(Tail(s), Tail(t))
    ELSE Ord(Head(s)) < Ord(Head(t))

\* max() of a non-empty set of str
StrMax(S) == CHOOSE s \in S : \A t \in S : ~StrLess(s, t)

RECURSIVE Sorted(_)
\* sorted() of a set of str
Sorted(S) ==
    IF S = {} THEN <<>>
    ELSE LET m == CHOOSE s \in S : \A t \in S : ~StrLess(t, s)
         IN  <<m>> \o Sorted(S \ {m})

\* str.isspace(), \s
IsSpace(c) == c \in {" ", "\n"}

RECURSIVE LStrip(_)
LStrip(s) == IF s # <<>> /\ IsSpace(Head(s)) THEN LStrip(Tail(s)) ELSE s

RECURSIVE RStrip(_)
RStrip(s) ==
    IF s # <<>> /\ IsSpace(s[Len(s)]) THEN RStrip(SubSeq(s, 1, Len(s) - 1)) ELSE s

\* str.strip()
Strip(s) == RStrip(LStrip(s))

\* str.endswith(suffix)
EndsWith(s, suffix) ==
    /\ Len(s) >= Len(suffix)
    /\ SubSeq(s, Len(s) - Len(suffix) + 1, Len(s)) = suffix

StartsWith(s, prefix) ==
    /\ Len(s) >= Len(prefix)
    /\ SubSeq(s, 1, Len(prefix)) = prefix

RECURSIVE Replace(_, _)
\* str.replace(old, "")
Replace(s, old) ==
    IF s = <<>> THEN <<>>
    ELSE IF StartsWith(s, old) THEN Replace(SubSeq(s, Len(old) + 1, Len(s)), old)
    ELSE <<Head(s)>> \o Replace(Tail(s), old)

RECURSIVE ParseInt(_)
\* int() of a digit string
ParseInt(s) ==
    IF s = <<>> THEN 0
    ELSE 10 * ParseInt(SubSeq(s, 1, Len(s) - 1)) + DigitVal(s[Len(s)])

RECURSIVE NumStr(_)
NumStr(n) == IF n < 10 THEN <<DigitChar(n)>> ELSE NumStr(n \div 10) \o <<DigitChar(n % 10)>>

RECURSIVE ZeroPad(_, _)
\* f"{n:0wd}"
ZeroPad(s, w) == IF Len(s) >= w THEN s ELSE ZeroPad(<<"0">> \o s, w)

Format(n, w) == ZeroPad(NumStr(n), w)

(***************************************************************************)
(* Configuration (lines 15-18) and fixed texts.                            *)
(***************************************************************************)
\* "_" U+7C73 U+56FD U+682A; a non-ASCII character is written by its code point
FILTER_SUFFIX == <<"_", "u7C73", "u56FD", "u682A">>

\* the text returned at line 103: U+8981 U+7D04 U+30A8 U+30E9 U+30FC
SENTINEL == <<"u8981", "u7D04", "u30A8", "u30E9", "u30FC">>

\* the text returned at lines 125, 129, 137, 138 and 142: U+8A18 U+8F09 U+306A U+3057
PLACEHOLDER == <<"u8A18", "u8F09", "u306A", "u3057">>

\* the labels searched at lines 133 and 134, each written as one character
LABEL_STATUS == "<U+6700 U+65B0 U+306E U+72B6 U+6CC1>"

LABEL_TIMING == "<U+3044 U+3064 U+8CB7 U+3046 U+3079 U+304D U+304B>"

(***************************************************************************)
(* extract_date_from_text: re.search of (20\d{2})[-/](\d{1,2})[-/](\d{1,2}) *)
(***************************************************************************)
At(text, i) == IF i >= 1 /\ i <= Len(text) THEN text[i] ELSE ""

IsSep(c) == c \in {"-", "/"}

\* how many characters a greedy \d{1,2} can take at i
Digits12(text, i) ==
    IF IsDigit(At(text, i)) THEN (IF IsDigit(At(text, i + 1)) THEN 2 ELSE 1) ELSE 0

\* the lengths of the month group after which the rest of the pattern matches
MonthLens(text, i) ==
    {n \in 1..Digits12(text, i) :
        IsSep(At(text, i + n)) /\ IsDigit(At(text, i + n + 1))}

MatchesAt(text, i) ==
    /\ At(text, i) = "2"
    /\ At(text, i + 1) = "0"
    /\ IsDigit(At(text, i + 2))
    /\ IsDigit(At(text, i + 3))
    /\ IsSep(At(text, i + 4))
    /\ MonthLens(text, i + 5) # {}

\* match.groups() of the match that starts at i: greedy, backtracking
GroupsAt(text, i) ==
    LET ml == CHOOSE n \in MonthLens(text, i + 5) :
                  \A k \in MonthLens(text, i + 5) : k <= n
        ds == i + 5 + ml + 1
        dl == Digits12(text, ds)
    IN  <<SubSeq(text, i, i + 3),
          SubSeq(text, i + 5, i + 4 + ml),
          SubSeq(text, ds, ds + dl - 1)>>

FormatDate(g) ==
    Format(ParseInt(g[1]), 4) \o <<"-">> \o Format(ParseInt(g[2]), 2)
        \o <<"-">> \o Format(ParseInt(g[3]), 2)

extract_date_from_text(text) ==
    LET starts == {i \in 1..Len(text) : MatchesAt(text, i)}
    IN  IF starts = {} THEN None
        ELSE FormatDate(GroupsAt(text, CHOOSE i \in starts : \A j \in starts : i <= j))

(***************************************************************************)
(* The export: threads, nodes, messages.                                   *)
(***************************************************************************)
NoKey == "<no key>"  \* a key the JSON object does not have

Node(message, role, parts, text) ==
    [message |-> message, role |-> role, parts |-> parts, text |-> text]

Text_d1 == <<"2", "0", "2", "4", "/", "1", "/", "5">>

Text_d2 == <<"2", "0", "2", "4", "-", "0", "1", "-", "1", "2">>

Text_d2d1 == <<"2", "0", "2", "4", "-", "1", "-", "1", "2", " ">> \o Text_d1

Text_h == <<"h">>

\* node shapes of an export: parts is "str" (parts[0] is a string), "dict"
\* (an object with "value"), "dict-novalue" (an object without), "empty" (an
\* empty list) or NoKey; role is NoKey when "author" or "role" is missing
LightNodes ==
    { Node(TRUE, "assistant", "str", Text_d1),
      Node(TRUE, "assistant", "str", Text_d2),
      Node(TRUE, NoKey, "str", Text_h) }

Nodes ==
    LightNodes \cup
    { Node(TRUE, "user", "str", Text_d2),
      Node(TRUE, "assistant", "str", Text_d2d1),
      Node(TRUE, "assistant", "dict-novalue", Text_d1),
      Node(TRUE, "assistant", NoKey, Text_d1),
      Node(FALSE, NoKey, NoKey, <<>>) }

RECURSIVE SeqsUpTo(_, _)
\* the sequences over S of length at most n
SeqsUpTo(S, n) ==
    IF n = 0 THEN {<<>>}
    ELSE LET shorter == SeqsUpTo(S, n - 1)
         IN  shorter \cup {<<x>> \o s : x \in S, s \in {t \in shorter : Len(t) = n - 1}}

Title_A == <<"A">> \o FILTER_SUFFIX

Title_B == <<"B">> \o FILTER_SUFFIX

Titles == {<<" ">> \o Title_A \o <<" ">>, Title_B, <<"A">>}

Thread(title, mapping) == [title |-> title, mapping |-> mapping]

\* the threads of an export that is read thread by thread
Threads == {Thread(t, m) : t \in Titles, m \in SeqsUpTo(LightNodes, MaxNodes)}

\* the exports that are held fixed over two runs
Exports ==
    {<<Thread(Title_A, m)>> : m \in SeqsUpTo(Nodes, MaxMsgs)}
        \cup SeqsUpTo({Thread(t, <<n>>) : t \in {Title_A, Title_B}, n \in LightNodes},
                      MaxThreads)

\* the file names main() can build at line 188
Files == {Strip(t) : t \in {u \in Titles : EndsWith(Strip(u), FILTER_SUFFIX)}}

(***************************************************************************)
(* Conversation reader, lines 191-202.                                     *)
(***************************************************************************)
Message(role, text) == [role |-> role, text |-> text]

\* lines 193-202 for one node: <<>> (skipped), <<message>> or a raise
ReadNode(node) ==
    IF ~node.message THEN [raised |-> "", out |-> <<>>]
    ELSE IF node.role = NoKey THEN [raised |-> "KeyError", out |-> <<>>]
    ELSE IF node.parts \in {NoKey, "empty"} THEN [raised |-> "", out |-> <<>>]
    ELSE IF node.parts = "dict-novalue"
         THEN [raised |-> "", out |-> <<Message(node.role, <<>>)>>]
    ELSE [raised |-> "", out |-> <<Message(node.role, node.text)>>]

RECURSIVE Reader(_)
Reader(mapping) ==
    IF mapping = <<>> THEN [raised |-> "", out |-> <<>>]
    ELSE LET first == ReadNode(Head(mapping))
             rest == Reader(Tail(mapping))
         IN  IF first.raised # "" THEN first
             ELSE IF rest.raised # "" THEN rest
             ELSE [raised |-> "", out |-> first.out \o rest.out]

(***************************************************************************)
(* Date segmenter, lines 204-212.                                          *)
(***************************************************************************)
\* date_to_group[key].append(msg) of a defaultdict(list)
AppendTo(groups, key, msg) ==
    [k \in DOMAIN groups \cup {key} |->
        IF k = key
        THEN (IF key \in DOMAIN groups THEN groups[key] ELSE <<>>) \o <<msg>>
        ELSE groups[k]]

\* the first date detected stays the cursor
SegmentStep_first(st, msg) ==
    LET extracted == IF msg.role = "assistant"
                     THEN extract_date_from_text(msg.text) ELSE None
        cur == IF st.current_date = None THEN extracted ELSE st.current_date
    IN  [current_date |-> cur,
         groups |-> IF cur # None THEN AppendTo(st.groups, cur, msg) ELSE st.groups]

\* lines 207-212 for one message
SegmentStep(st, msg) ==
    LET extracted == IF msg.role = "assistant"
                     THEN extract_date_from_text(msg.text) ELSE None
        cur == IF extracted # None THEN extracted ELSE st.current_date
    IN  [current_date |-> cur,
         groups |-> IF cur # None THEN AppendTo(st.groups, cur, msg) ELSE st.groups]

RECURSIVE SegmentFrom(_, _)
SegmentFrom(st, msgs) ==
    IF msgs = <<>> THEN st ELSE SegmentFrom(SegmentStep(st, Head(msgs)), Tail(msgs))

\* date_to_group after the loop of lines 204-212
Segment(msgs) == SegmentFrom([current_date |-> None, groups |-> <<>>], msgs).groups

\* sorted(date_to_group.items())
SortedItems(groups) ==
    LET keys == Sorted(DOMAIN groups)
    IN  [i \in 1..Len(keys) |-> <<keys[i], groups[keys[i]]>>]

(***************************************************************************)
(* Documents.  kind is "none" (no such file), "page" (a page with a body), *)
(* "nobody" (html.parser finds no <body>) or "undecodable" (the bytes are  *)
(* not UTF-8); secs are the (<h2>, <pre>) pairs in document order.         *)
(***************************************************************************)
Doc(kind, title, secs) == [kind |-> kind, title |-> title, secs |-> secs]

NoFile == Doc("none", <<>>, <<>>)

Section(date, body) == [h2 |-> date, pre |-> body]

\* soup.find("h2") for soup.find_all("h2")
extract_existing_dates_first(doc) ==
    IF doc.kind = "none" THEN [raised |-> "", dates |-> {}]
    ELSE IF doc.kind = "undecodable" THEN [raised |-> "UnicodeDecodeError", dates |-> {}]
    ELSE [raised |-> "", dates |-> {Strip(doc.secs[i].h2) : i \in 1..Len(doc.secs) \cap {1}}]

\* soup.find_all("h3") for soup.find_all("h2")
extract_existing_dates_h3(doc) ==
    IF doc.kind = "undecodable" THEN [raised |-> "UnicodeDecodeError", dates |-> {}]
    ELSE [raised |-> "", dates |-> {}]

\* a failed summary does not count as recorded
extract_existing_dates_retry(doc) ==
    IF doc.kind = "none" THEN [raised |-> "", dates |-> {}]
    ELSE IF doc.kind = "undecodable" THEN [raised |-> "UnicodeDecodeError", dates |-> {}]
    ELSE [raised |-> "",
          dates |-> {Strip(doc.secs[i].h2) :
                        i \in {j \in 1..Len(doc.secs) : doc.secs[j].pre # SENTINEL}}]

\* lines 51-56
extract_existing_dates(doc) ==
    IF doc.kind = "none" THEN [raised |-> "", dates |-> {}]
    ELSE IF doc.kind = "undecodable" THEN [raised |-> "UnicodeDecodeError", dates |-> {}]
    ELSE [raised |-> "", dates |-> {Strip(doc.secs[i].h2) : i \in 1..Len(doc.secs)}]

(***************************************************************************)
(* Segment summarizer, lines 65-103 and 221-225.                           *)
(***************************************************************************)
RECURSIVE Join(_)
\* "\n".join(lines)
Join(lines) ==
    IF lines = <<>> THEN <<>>
    ELSE IF Len(lines) = 1 THEN lines[1]
    ELSE lines[1] \o <<"\n">> \o Join(Tail(lines))

\* lines 221-224
FullText(grouped_msgs) ==
    Join([i \in 1..Len(grouped_msgs) |->
            (IF grouped_msgs[i].role = "user" THEN <<"Q", ":", " ">> ELSE <<"A", ":", " ">>)
                \o grouped_msgs[i].text])

\* a reply in the requested format (its last two headings), as the API sends it
Reply_format ==
    <<LABEL_STATUS, "\n", "h", "\n", LABEL_TIMING, "\n", "x", "\n">>

Replies == {Reply_format}

\* what the HTTP call of lines 90-100 can do: answer with a text, raise
\* (connection error, timeout) or answer with another JSON shape
ApiOutcomes ==
    {[kind |-> "reply", text |-> r] : r \in Replies}
        \cup {[kind |-> k, text |-> <<>>] : k \in {"exception", "timeout", "malformed"}}

\* lines 65-103
summarize_with_gemini(text, outcome) ==
    IF outcome.kind = "reply" THEN Strip(outcome.text) ELSE SENTINEL

(***************************************************************************)
(* Document merger, lines 226-236.                                         *)
(***************************************************************************)
\* the page shell written whether or not the file exists
Merge_rewrite(doc, title, date, body) ==
    [raised |-> "", doc |-> Doc("page", title, <<Section(date, body)>>)]

\* lines 228-236
Merge(doc, title, date, body) ==
    IF doc.kind = "none"
    THEN [raised |-> "", doc |-> Doc("page", title, <<Section(date, body)>>)]
    ELSE IF doc.kind = "undecodable" THEN [raised |-> "UnicodeDecodeError", doc |-> doc]
    ELSE IF doc.kind = "nobody" THEN [raised |-> "AttributeError", doc |-> doc]
    ELSE [raised |-> "",
          doc |-> [doc EXCEPT !.secs = Append(doc.secs, Section(date, body))]]

(***************************************************************************)
(* Index builder, lines 105-171.                                           *)
(***************************************************************************)
\* re.fullmatch of \d{4}-\d{2}-\d{2}: what <h2>(\d{4}-\d{2}-\d{2})</h2> captures
IsDateHeading(h) ==
    /\ Len(h) = 10
    /\ \A i \in {1, 2, 3, 4, 6, 7, 9, 10} : IsDigit(h[i])
    /\ h[5] = "-"
    /\ h[8] = "-"

FilesOf(d) == {f \in DOMAIN d : d[f].kind # "none"}

RECURSIVE LatestFrom(_, _, _)
\* the loop of lines 108-114 over the files left
LatestFrom(d, files, latest) ==
    IF files = <<>> THEN [raised |-> "", latest |-> latest]
    ELSE LET doc == d[Head(files)]
             dates == {doc.secs[i].h2 : i \in {j \in 1..Len(doc.secs) :
                                                  IsDateHeading(doc.secs[j].h2)}}
         IN  IF doc.kind = "undecodable"
             THEN [raised |-> "UnicodeDecodeError", latest |-> latest]
             ELSE IF dates # {} /\ StrLess(latest, StrMax(dates))
             THEN LatestFrom(d, Tail(files), StrMax(dates))
             ELSE LatestFrom(d, Tail(files), latest)

\* the loop of lines 108-114 left after the first file
get_latest_update_date_first(d) ==
    LET files == Sorted(FilesOf(d))
    IN  IF files = <<>> THEN [raised |-> "", latest |-> <<>>]
        ELSE LatestFrom(d, <<Head(files)>>, <<>>)

\* lines 105-115
get_latest_update_date(d) == LatestFrom(d, Sorted(FilesOf(d)), <<>>)

\* re.search of label[...]?.*?[...]?[:]?\s*\n(.+) at lines 133-134, then the
\* strip() of lines 137-138: the label, the rest of its line, white space up
\* to a newline, and the line that follows
LabelLine(text, label) ==
    LET Newlines(p) == {n \in p + 1..Len(text) : text[n] = "\n"}
        First(p) == CHOOSE n \in Newlines(p) : \A k \in Newlines(p) : n <= k
        Ends(p) == {q \in First(p)..Len(text) - 1 :
                        /\ \A k \in First(p)..q : IsSpace(text[k])
                        /\ text[q] = "\n"
                        /\ text[q + 1] # "\n"}
        starts == {p \in 1..Len(text) :
                        text[p] = label /\ Newlines(p) # {} /\ Ends(p) # {}}
    IN  IF starts = {} THEN PLACEHOLDER
        ELSE LET p == CHOOSE i \in starts : \A j \in starts : i <= j
                 q == CHOOSE i \in Ends(p) : \A j \in Ends(p) : j <= i
                 stops == {e \in q + 1..Len(text) :
                               e = Len(text) \/ text[e + 1] = "\n"}
                 e == CHOOSE i \in stops : \A j \in stops : i <= j
             IN  Strip(SubSeq(text, q + 1, e))

\* lines 119-142
extract_summary_lines(doc) ==
    IF doc.kind = "undecodable" \/ doc.secs = <<>> THEN <<PLACEHOLDER, PLACEHOLDER>>
    ELSE LET text == doc.secs[Len(doc.secs)].pre
         IN  <<LabelLine(text, LABEL_STATUS), LabelLine(text, LABEL_TIMING)>>

NoIndex == [exists |-> FALSE, items |-> <<>>, latest |-> <<>>]

\* lines 144-171
generate_index_html(d) ==
    LET files == Sorted(FilesOf(d))
        sections == [i \in 1..Len(files) |->
                        [name |-> files[i],
                         title |-> Replace(files[i], FILTER_SUFFIX),
                         status |-> extract_summary_lines(d[files[i]])[1],
                         timing |-> extract_summary_lines(d[files[i]])[2]]]
        latest == get_latest_update_date(d)
    IN  IF latest.raised # "" THEN [raised |-> latest.raised, index |-> NoIndex]
        ELSE [raised |-> "",
              index |-> [exists |-> TRUE, items |-> sections, latest |-> latest.latest]]

(***************************************************************************)
(* main(), lines 173-241.  The export is either held fixed over two runs   *)
(* (data.fixed) or any export of at most MaxThreads threads, read thread   *)
(* by thread.  Locals that are dead at the end of a loop body are reset.   *)
(***************************************************************************)
AnyExport == [fixed |-> FALSE, threads |-> <<>>]

FixedExport(threads) == [fixed |-> TRUE, threads |-> threads]

\* the threads `for thread in data` can yield at position ti
Input ==
    IF data.fixed
    THEN (IF ti <= Len(data.threads) THEN {data.threads[ti]} ELSE {})
    ELSE (IF ti <= MaxThreads THEN Threads ELSE {})

\* lines 173-181 without the return of line 176
StartRun_noreturn ==
    /\ pc \in {"idle", "returned", "done", "aborted"}
    /\ ~replay
    /\ \E ex \in BOOLEAN :
          /\ (data.fixed /\ pc # "idle") => ex = inputExists
          /\ inputExists' = ex
    /\ pc' = "threads"
    /\ ti' = 1
    /\ replay' = (data.fixed /\ pc # "idle")
    /\ exc' = ""
    /\ html_path' = None
    /\ existing_dates' = {}
    /\ messages' = <<>>
    /\ date_to_group' = <<>>
    /\ todo' = <<>>
    /\ summary' = None
    /\ called' = FALSE
    /\ failed' = FALSE
    /\ UNCHANGED <<docs, index, data>>

\* lines 173-181: a run starts
StartRun ==
    /\ pc \in {"idle", "returned", "done", "aborted"}
    /\ ~replay
    /\ \E ex \in BOOLEAN :
          /\ (data.fixed /\ pc # "idle") => ex = inputExists
          /\ inputExists' = ex
          /\ pc' = IF ex THEN "threads" ELSE "returned"
          /\ ti' = IF ex THEN 1 ELSE 0
    /\ replay' = (data.fixed /\ pc # "idle")
    /\ exc' = ""
    /\ html_path' = None
    /\ existing_dates' = {}
    /\ messages' = <<>>
    /\ date_to_group' = <<>>
    /\ todo' = <<>>
    /\ summary' = None
    /\ called' = FALSE
    /\ failed' = FALSE
    /\ UNCHANGED <<docs, index, data>>

\* lines 184-214 for one thread
ProcessThread(thread) ==
    LET title == Strip(thread.title)
        found == extract_existing_dates(docs[title])
        read == Reader(thread.mapping)
        groups == Segment(read.out)
    IN  IF ~EndsWith(title, FILTER_SUFFIX)
        THEN /\ ti' = ti + 1
             /\ UNCHANGED <<pc, exc, html_path, existing_dates, messages,
                            date_to_group, todo>>
        ELSE IF found.raised # ""
        THEN /\ pc' = "aborted"
             /\ exc' = found.raised
             /\ html_path' = title
             /\ UNCHANGED <<ti, existing_dates, messages, date_to_group, todo>>
        ELSE IF read.raised # ""
        THEN /\ pc' = "aborted"
             /\ exc' = read.raised
             /\ html_path' = title
             /\ existing_dates' = found.dates
             /\ UNCHANGED <<ti, messages, date_to_group, todo>>
        ELSE /\ pc' = "dates"
             /\ html_path' = title
             /\ existing_dates' = found.dates
             /\ messages' = read.out
             /\ date_to_group' = groups
             /\ todo' = SortedItems(groups)
             /\ UNCHANGED <<ti, exc>>

\* line 183: the next thread of the export
LoopThread ==
    /\ pc = "threads"
    /\ \E thread \in Input : ProcessThread(thread)
    /\ called' = FALSE
    /\ UNCHANGED <<docs, index, inputExists, data, summary, failed, replay>>

\* lines 216-238 for the next date of the thread
LoopDate ==
    /\ pc = "dates"
    /\ todo # <<>>
    /\ LET date == Head(todo)[1]
           grouped_msgs == Head(todo)[2]
       IN  IF date \in existing_dates
           THEN /\ todo' = Tail(todo)
                /\ called' = FALSE
                /\ UNCHANGED <<docs, pc, exc, summary, failed>>
           ELSE \E outcome \in ApiOutcomes :
                  LET text == summarize_with_gemini(FullText(grouped_msgs), outcome)
                      merged == Merge(docs[html_path], html_path, date, text)
                  IN  /\ summary' = text
                      /\ called' = TRUE
                      /\ failed' = (failed \/ outcome.kind # "reply")
                      /\ IF merged.raised # ""
                         THEN /\ pc' = "aborted"
                              /\ exc' = merged.raised
                              /\ UNCHANGED <<docs, todo>>
                         ELSE /\ docs' = [docs EXCEPT ![html_path] = merged.doc]
                              /\ todo' = Tail(todo)
                              /\ UNCHANGED <<pc, exc>>
    /\ UNCHANGED <<index, inputExists, data, ti, html_path, existing_dates,
                   messages, date_to_group, replay>>

\* line 216: the dates of the thread are exhausted
EndDates ==
    /\ pc = "dates"
    /\ todo = <<>>
    /\ pc' = "threads"
    /\ ti' = ti + 1
    /\ html_path' = None
    /\ existing_dates' = {}
    /\ messages' = <<>>
    /\ date_to_group' = <<>>
    /\ summary' = None
    /\ called' = FALSE
    /\ UNCHANGED <<docs, index, exc, inputExists, data, todo, failed, replay>>

\* lines 240-241: the export is exhausted
BuildIndex ==
    /\ pc = "threads"
    /\ data.fixed => ti > Len(data.threads)
    /\ LET built == generate_index_html(docs)
       IN  IF built.raised # ""
           THEN pc' = "aborted" /\ exc' = built.raised /\ UNCHANGED index
           ELSE pc' = "done" /\ index' = built.index /\ UNCHANGED exc
    /\ called' = FALSE
    /\ UNCHANGED <<docs, inputExists, data, ti, html_path, existing_dates,
                   messages, date_to_group, todo, summary, failed, replay>>

Next == StartRun \/ LoopThread \/ LoopDate \/ EndDates \/ BuildIndex

InitWith(export, directory) ==
    /\ docs = directory
    /\ index = NoIndex
    /\ pc = "idle"
    /\ exc = ""
    /\ inputExists = FALSE
    /\ data = export
    /\ ti = 0
    /\ html_path = None
    /\ existing_dates = {}
    /\ messages = <<>>
    /\ date_to_group = <<>>
    /\ todo = <<>>
    /\ summary = None
    /\ called = FALSE
    /\ failed = FALSE
    /\ replay = FALSE

EmptyDirectory == [f \in Files |-> NoFile]

\* a first installation, any exports
Init == InitWith(AnyExport, EmptyDirectory)

Spec == Init /\ [][Next]_vars

\* a first installation, one export run twice
InitExport == \E threads \in Exports : InitWith(FixedExport(threads), EmptyDirectory)

SpecExport == InitExport /\ [][Next]_vars

\* documents a killed write leaves behind: truncated before <body> (an empty
\* file too), or truncated inside a multi-byte character
Damaged == {Doc("nobody", <<>>, <<>>), Doc("undecodable", <<>>, <<>>)}

InitDamaged ==
    \E directory \in [Files -> {NoFile} \cup Damaged] :
        InitWith(AnyExport, directory)

SpecDamaged == InitDamaged /\ [][Next]_vars

(***************************************************************************)
(* Properties.                                                             *)
(***************************************************************************)
IsPrefix(s, t) == Len(s) <= Len(t) /\ SubSeq(t, 1, Len(s)) = s

Date_d2 == <<"2", "0", "2", "4", "-", "0", "1", "-", "1", "2">>

\* C1: append-only.  No step of a run removes, reorders or changes a section
\* of a persisted document: the sections a document holds before a step are
\* a prefix of the sections it holds after it, so the sections before a run
\* are a prefix of the sections after the run.
C1_AppendOnly ==
    [][\A f \in Files : IsPrefix(docs[f].secs, docs'[f].secs)]_vars

\* a section has just been appended to a document that held sections when the
\* thread started
C1_Witness ==
    /\ pc = "dates"
    /\ called
    /\ existing_dates # {}
    /\ Len(docs[html_path].secs) > Cardinality(existing_dates)

\* C2: idempotence.  In the second of two runs on the same export no step
\* calls the summarizer and no step changes a persisted document.
C2_Idempotent ==
    [][replay' => (~called' /\ docs' = docs)]_vars

\* the second run has finished over a document of two sections
C2_Witness ==
    /\ replay
    /\ pc = "done"
    /\ \E f \in Files : Len(docs[f].secs) >= 2

\* C3: no persisted document holds two sections with the same date, whatever
\* the runs and the exports (threads of one title included).
C3_NoDuplicateDates ==
    \A f \in Files :
        \A i, j \in 1..Len(docs[f].secs) :
            i # j => docs[f].secs[i].h2 # docs[f].secs[j].h2

\* a later thread of a run has appended to a document that held sections and
\* has skipped a date already there
C3_Witness ==
    /\ pc = "dates"
    /\ ti >= 2
    /\ called
    /\ existing_dates \cap DOMAIN date_to_group # {}
    /\ Len(docs[html_path].secs) >= 2

\* C4: degrade safety.  A run in which a summarization call failed does not
\* abort (and so reaches every other date and the index page).
C4_DegradeSafety ==
    failed => pc # "aborted"

\* C5: a sentinel section counts as recorded.  A section whose body is the
\* failure sentinel stays where it is, unchanged, and no step calls the
\* summarizer for its document and date.
C5_SentinelIsRecorded ==
    [][\A f \in Files : \A i \in 1..Len(docs[f].secs) :
          docs[f].secs[i].pre = SENTINEL =>
              /\ Len(docs'[f].secs) >= i
              /\ docs'[f].secs[i] = docs[f].secs[i]
              /\ ~(/\ called'
                   /\ pc = "dates"
                   /\ html_path = f
                   /\ todo # <<>>
                   /\ Head(todo)[1] = docs[f].secs[i].h2)]_vars

\* a thread carries a date whose section holds the sentinel, and has passed it
C5_Witness ==
    /\ pc = "dates"
    /\ \E i \in 1..Len(docs[html_path].secs) :
          /\ docs[html_path].secs[i].pre = SENTINEL
          /\ docs[html_path].secs[i].h2 \in existing_dates \cap DOMAIN date_to_group
          /\ \A k \in 1..Len(todo) : todo[k][1] # docs[html_path].secs[i].h2

\* the assistant messages among the first i of msgs that carry a date
Detections(msgs, i) ==
    {j \in 1..i : /\ msgs[j].role = "assistant"
                  /\ extract_date_from_text(msgs[j].text) # None}

\* the date cursor after message i: unset, or the date of the last detection
Cursor(msgs, i) ==
    LET found == Detections(msgs, i)
    IN  IF found = {} THEN None
        ELSE extract_date_from_text(
                 msgs[CHOOSE j \in found : \A k \in found : k <= j].text)

RECURSIVE Bucket(_, _, _)
\* the messages from position i on whose cursor is date, in order
Bucket(msgs, date, i) ==
    IF i > Len(msgs) THEN <<>>
    ELSE (IF Cursor(msgs, i) = date THEN <<msgs[i]>> ELSE <<>>)
             \o Bucket(msgs, date, i + 1)

\* groups are the buckets the cursor makes of msgs
CursorBuckets(msgs, groups) ==
    /\ DOMAIN groups = {Cursor(msgs, i) : i \in 1..Len(msgs)} \ {None}
    /\ \A date \in DOMAIN groups : groups[date] = Bucket(msgs, date, 1)
    /\ \A i \in 1..Len(msgs) :
          (msgs[i].role = "assistant" /\ msgs[i].text = Text_d2d1)
              => Cursor(msgs, i) = Date_d2
    /\ (Detections(msgs, Len(msgs)) = {} => groups = <<>>)

\* C6: date segmenter.  The buckets of a thread are, for each date the cursor
\* takes, the messages read while the cursor had that date, in order: the
\* cursor is unset at first and is set by every assistant message that carries
\* a date, to the first date of its text; messages before the first detection
\* are in no bucket.  A thread without a detection has no bucket, and no
\* step taken for it changes a document.
C6_Segmenter ==
    [][/\ pc' = "dates" => CursorBuckets(messages', date_to_group')
       /\ (pc = "dates" /\ Detections(messages, Len(messages)) = {})
              => (todo = <<>> /\ docs' = docs)]_vars

\* a thread of three messages: the first is dropped, the second sets the
\* cursor and the third moves it
C6_Witness ==
    /\ pc = "dates"
    /\ Len(messages) = 3
    /\ Cursor(messages, 1) = None
    /\ Cursor(messages, 2) # None
    /\ Cursor(messages, 3) \notin {None, Cursor(messages, 2)}

\* C7: missing input.  A run that finds no input file returns at once: it
\* changes no persisted document, calls no summarizer and leaves the index
\* page as it was.
C7_MissingInput ==
    [][(~inputExists' /\ pc' # "idle") =>
          /\ pc' = "returned"
          /\ docs' = docs
          /\ index' = index
          /\ ~called']_vars

\* a run without input, after a run that wrote documents and the index page
C7_Witness ==
    /\ pc = "returned"
    /\ index.exists
    /\ \E f \in Files : docs[f].kind = "page"

\* C8: silent omission.  No node of an export makes the reader raise.
C8_SilentOmission ==
    ~(pc = "aborted" /\ exc = "KeyError")

\* C9: an existing document that cannot be parsed makes neither the
\* inspector nor the merger raise.
C9_UnparsableDegrades ==
    ~(pc = "aborted" /\ exc \in {"UnicodeDecodeError", "AttributeError"})

\* the YYYY-MM-DD headings of all persisted documents
AllDates ==
    UNION {{docs[f].secs[i].h2 : i \in {j \in 1..Len(docs[f].secs) :
                                            IsDateHeading(docs[f].secs[j].h2)}} :
           f \in Files}

\* C10: index freshness.  When a run has built the index page, its "last
\* updated" value is the lexical maximum of the date headings of all
\* persisted documents (empty when there is none), and the page lists each
\* persisted document once.
C10_IndexFreshness ==
    pc = "done" =>
        /\ index.exists
        /\ IF AllDates = {} THEN index.latest = <<>>
           ELSE /\ index.latest \in AllDates
                /\ \A date \in AllDates : ~StrLess(index.latest, date)
        /\ Len(index.items) = Cardinality(FilesOf(docs))
        /\ {index.items[i].name : i \in 1..Len(index.items)} = FilesOf(docs)

\* the index page built over two documents, the newest date in the second
C10_Witness ==
    /\ pc = "done"
    /\ Len(index.items) = 2
    /\ index.latest = Date_d2
    /\ docs[Title_A].secs # <<>>
    /\ \A i \in 1..Len(docs[Title_A].secs) : docs[Title_A].secs[i].h2 # Date_d2

====
